---- MODULE Spec2Model ----
(***************************************************************************)
(* Model of the DALI backend executor: DaliExecutor (input staging, run,   *)
(* output marshalling), the IOBuffer staging buffer, the copy thread pool  *)
(* and the DaliPipeline collaborator.                                      *)
(***************************************************************************)
EXTENDS Integers, Sequences, FiniteSets, TLC

\* ------------------------------------------------------------------ bounds
MaxInputs == 2
MaxOutputs == 2
MaxFrags == 2
MaxFragSize == 2
MaxBatch == 2
MaxDeviceId == 1
MaxCalls == 2
NumThreads == 2
MaxTasks == 3
MaxBytes == 4
MaxAllocs == 3
MaxObjects == 2
MaxHandles == 3

DeviceIds == 0..MaxDeviceId
DeviceTypes == {"CPU", "GPU"}

VARIABLES
  ndebug,       \* build flavour: TRUE when assert() is compiled out
  device_id,    \* DaliPipeline::device_id_
  current_device, \* what cudaGetDevice yields on the calling thread
  frag,         \* position in the AddWork loop over fragments, 0 outside it
  descriptor,   \* the local descriptor / interm_descr the AddWork loop uses
  cpu_buffers,  \* DaliExecutor::cpu_buffers_ : key -> IOBuffer<CPU>
  gpu_buffers,  \* DaliExecutor::gpu_buffers_ : key -> IOBuffer<GPU>
  tasks,        \* work queue of thread_pool_
  flushing,     \* thread_pool_ is inside RunAll
  pipe,         \* state of the DALI pipeline behind pipeline_
  pc,           \* position of the calling thread inside DaliExecutor
  op,           \* entry point of the current or last invocation
  inputs,       \* argument of Run
  outputs,      \* argument of PutOutputs
  idx,          \* loop index of the per-input or per-output loop
  c_inputs,     \* SetupInputs local vector
  result,       \* how the last invocation left: "none", "ok", "error"
  calls,        \* number of invocations started
  obs,          \* instrumentation of the current invocation
  dest,         \* the caller's destination memory, by address
  stream,       \* copies issued on the pipeline's output stream, not yet done
  buf,          \* an IOBuffer used on its own
  io,           \* the last call made on buf and the chunks handed out
  objects,      \* DaliPipeline objects: state, handle_, output_stream_
  pipelines,    \* per pipeline handle created: number of daliDeletePipeline calls
  cuda_streams  \* per stream created: number of cudaStreamDestroy calls

vars == <<ndebug, current_device, frag, descriptor, device_id, cpu_buffers, gpu_buffers, tasks, flushing, pipe,
          pc, op, inputs, outputs, idx, c_inputs, result, calls, obs, dest, stream,
          buf, io, objects, pipelines, cuda_streams>>

executorVars == <<ndebug, current_device, frag, descriptor, device_id, cpu_buffers, gpu_buffers, tasks, flushing, pipe,
                  pc, op, inputs, outputs, idx, c_inputs, result, calls, obs, dest, stream>>
bufferVars == <<buf, io>>
pipelineVars == <<objects, pipelines, cuda_streams>>

\* ------------------------------------------------------------ helpers
SumSizesFirst(bufs) == IF bufs = <<>> THEN 0 ELSE bufs[1].size

RECURSIVE SumSizes(_)
SumSizes(bufs) ==
  IF bufs = <<>> THEN 0 ELSE bufs[1].size + SumSizes(Tail(bufs))

\* offset of fragment k: the value of dst/src after k-1 increments
RECURSIVE OffsetOf(_, _)
OffsetOf(bufs, k) ==
  IF k <= 1 THEN 0 ELSE bufs[k - 1].size + OffsetOf(bufs, k - 1)

SeqsUpTo(S, n) == UNION {[1..m -> S] : m \in 1..n}

\* ------------------------------------------------------------- size_t
\* A size_t value is an integer of small magnitude: n >= 0 stands for n and
\* -n stands for 2^64 - n.  Integer addition of such values is addition
\* modulo 2^64; the unsigned order puts every value -n above every n >= 0.
SIZE_MAX == 0 - 1

SizeLe(a, b) == IF a < 0 THEN (b < 0 /\ a <= b) ELSE (b < 0 \/ a <= b)

\* ---------------------------------------------------------- IOBuffer
\* A buffer is [cap, alloc, filled, mem, data, device_id]: cap is
\* buffer_.size() and mem, of length cap, its bytes; alloc is
\* buffer_.capacity(), the size of the storage buffer_ holds; data names the
\* storage buffer_.data() points to: the number of times buffer_ has moved
\* to new storage.
Garbage == <<"garbage">>

NewBuffer(dev) ==
  [cap |-> 0, alloc |-> 0, filled |-> 0, mem |-> <<>>, data |-> 0,
   device_id |-> IF dev = "GPU" THEN current_device ELSE 0]

AllocateOKUnchecked(b, size) == TRUE

\* filled_ + size <= buffer_.size(), computed in size_t
AllocateOK(b, size) == SizeLe(b.filled + size, b.cap)

\* filled_ += size, computed in size_t
Allocate(b, size) == [b EXCEPT !.filled = @ + size]

ClearRelease(b) == [b EXCEPT !.filled = 0, !.cap = 0, !.alloc = 0, !.mem = <<>>]

Clear(b) == [b EXCEPT !.filled = 0]

ReserveOKUnchecked(b, size) == TRUE

ReserveOKStrict(b, size) == b.filled = 0

ReserveOK(b, size) == ~SizeLe(size, b.cap) => b.filled = 0

\* The storage buffer_ holds after growing to size beyond what it holds
\* now: std::vector takes size() + max(size(), size - size()) bytes.
Grown(b, size) == IF 2 * b.cap >= size THEN 2 * b.cap ELSE size

\* buffer_.resize(size) beyond buffer_.capacity() needs new storage.
Reallocates(b, size) == size > b.alloc

ReserveExact(b, size) ==
  [b EXCEPT !.cap = size,
            !.alloc = IF Reallocates(b, size) THEN Grown(b, size) ELSE @,
            !.data = IF Reallocates(b, size) THEN @ + 1 ELSE @,
            !.mem = [j \in 1..size |-> IF j <= b.cap THEN b.mem[j] ELSE Garbage]]

\* buffer_.resize(size) on growth: within the storage buffer_ holds the new
\* bytes are appended in place; beyond it the bytes move to new storage and
\* the old storage is freed.
Reserve(b, size) ==
  IF ~SizeLe(size, b.cap)
    THEN [b EXCEPT !.cap = size,
                   !.alloc = IF Reallocates(b, size) THEN Grown(b, size) ELSE @,
                   !.data = IF Reallocates(b, size) THEN @ + 1 ELSE @,
                   !.mem = [j \in 1..size |-> IF j <= b.cap THEN b.mem[j] ELSE Garbage]]
    ELSE b

Capacity(b) == b.cap

GetDescr(b, dev, key) ==
  [data |-> <<"staging", dev, key, b.data>>, size |-> b.filled,
   device |-> dev, device_id |-> b.device_id]

\* resize(size) as used by the executor: drop the old reservation, make room
\* for size bytes and claim them.
resize(b, size) == Allocate(Reserve(Clear(b), size), size)

\* resize whose allocation throws: the old reservation is already dropped.
resizeThrows(b) == Clear(b)

get_descr(b, dev, key) == GetDescr(b, dev, key)

Lookup(map, key, dev) == IF key \in DOMAIN map THEN map[key] ELSE NewBuffer(dev)

Store(map, key, b) == [k \in DOMAIN map \cup {key} |-> IF k = key THEN b ELSE map[k]]

\* What a task or a stream copy does through a pointer into storage that has
\* been freed: its bytes are lost, they land in the storage the buffer has
\* now, they land in the block that now holds a descriptor of c_inputs, or
\* the process dies.
Dangling == {"lost", "stray", "corrupt", "crash"}

\* c_inputs with the descriptor of slot s overwritten: its pointer is not
\* the one that was stored.
CorruptInput(c, s) == [c EXCEPT ![s].buffers[1].data[1] = "garbage"]

\* c_inputs after the outcome ub of a write through a stale pointer.
InputsAfter(c, ub) ==
  IF ub = "corrupt" /\ c # <<>> THEN {CorruptInput(c, s) : s \in 1..Len(c)} ELSE {c}

\* --------------------------------------------------------- thread pool
AddWork(q, work, size, immediate) ==
  Append(q, [work |-> work, size |-> size, immediate |-> immediate,
             status |-> "queued", call |-> calls])

Unfinished(q) == {t \in 1..Len(q) : q[t].status # "done"}
Running(q) == {t \in 1..Len(q) : q[t].status = "running"}

\* ------------------------------------------------------------ inputs
\* Shapes of the fragments the serving layer may hand over.  CPU memory has
\* no device index (0).
FragShapes ==
  {f \in [device : DeviceTypes, device_id : DeviceIds, size : 1..MaxFragSize] :
     f.device = "CPU" => f.device_id = 0}

FragLists == SeqsUpTo(FragShapes, MaxFrags)

NameList == <<"a", "b">>

\* Sequences of distinct names, in the order of NameList.
NameSeqs(n) ==
  {[s \in 1..Len(c) |-> NameList[c[s]]] :
     c \in {c \in SeqsUpTo(1..Len(NameList), n) :
              \A x \in 1..Len(c) - 1 : c[x] < c[x + 1]}}

\* Descriptor of slot s with name n: every sample holds one one-byte element,
\* so num_elements() * dali_type_size(type) = num_samples.
MkDescr(n, batch, frags, s) ==
  [meta |-> [name |-> n, num_samples |-> batch, inp_size |-> batch],
   buffers |-> [k \in 1..Len(frags) |->
                  [data |-> <<"caller", s, k>>, size |-> frags[k].size,
                   device |-> frags[k].device, device_id |-> frags[k].device_id]]]

RECURSIVE TotalFrags(_)
TotalFrags(fs) == IF fs = <<>> THEN 0 ELSE Len(fs[1]) + TotalFrags(Tail(fs))

\* Arguments of Run: at most MaxInputs descriptors, each of at most MaxFrags
\* fragments, and MaxTasks fragments in all.
InputBatches ==
  {<<>>} \cup
  {[s \in 1..Len(x[1]) |-> MkDescr(x[1][s], x[2][s], x[3][s], s)] :
     x \in {x \in NameSeqs(MaxInputs) \X SeqsUpTo(1..MaxBatch, MaxInputs)
                                      \X SeqsUpTo(FragLists \cup {<<>>}, MaxInputs) :
              /\ Len(x[2]) = Len(x[1])
              /\ Len(x[3]) = Len(x[1])
              /\ TotalFrags(x[3]) <= MaxTasks}}

\* The requests of a well-behaved client: at least one input, every input
\* with at least one fragment, equal batch sizes, every buffer large enough
\* for its tensor, and a fragmented tensor lies in host memory.
ValidBatches ==
  {b \in InputBatches :
     /\ b # <<>>
     /\ \A s \in 1..Len(b) :
       /\ b[s].buffers # <<>>
       /\ b[s].meta.num_samples = 1
       /\ Len(b[s].buffers) > 1 =>
            \A k \in 1..Len(b[s].buffers) : b[s].buffers[k].device = "CPU"}

\* Arguments of PutOutputs.
OutputBatches ==
  {[s \in 1..Len(x[1]) |-> MkDescr(x[1][s], 1, x[2][s], s)] :
     x \in {x \in NameSeqs(MaxOutputs) \X SeqsUpTo(FragLists, MaxOutputs) :
              /\ Len(x[2]) = Len(x[1])
              /\ TotalFrags(x[2]) <= MaxTasks
              /\ \A s \in 1..Len(x[2]) : \A k \in 1..Len(x[2][s]) :
                   x[2][s][k].device = "CPU"}}

\* Addresses of the destination fragments the caller may hand to PutOutputs;
\* every fragment has room for MaxFragSize bytes.
DestAddrs == {<<"caller", s, k>> : s \in 1..MaxOutputs, k \in 1..MaxFrags}

\* ------------------------------------------------------- instrumentation
ObsInit ==
  [enq |-> <<>>,          \* AddWork calls of this invocation: [slot, size]
   completed |-> 0,       \* copy tasks of this invocation that have finished
   pipe_calls |-> <<>>,   \* calls made on pipeline_, in order
   put_output |-> <<>>,   \* arguments of the pipeline_.PutOutput calls
   set_input |-> <<>>,    \* descriptors handed to pipeline_.SetInput
   fault |-> "none",      \* failure forced on the pipeline's execution
   exec |-> "none",       \* outcome of pipeline_.Run()/Output()
   after_failure |-> FALSE, \* the previous invocation was a Run whose execution failed
   returned_info |-> FALSE] \* Run handed a vector of OutputInfo to its caller

\* ------------------------------------------------------------- Init
PipeFresh ==
  [state |-> "ready", fed |-> 0, has_output |-> FALSE, pending |-> 0,
   num_outputs |-> MaxOutputs]

\* No descriptor is held outside ScheduleInputCopy and the staged branch of
\* PutOutputs.
NoDescr == [data |-> <<>>, size |-> 0, device |-> "CPU", device_id |-> 0]

\* No call has been made on buf yet.
IoInit ==
  [op |-> "none", size |-> 0, ok |-> TRUE, error |-> "none", origin |-> {},
   before |-> NewBuffer("CPU"), chunks |-> <<>>]

\* No DaliPipeline object exists.
NoObject ==
  [state |-> "none",      \* "none", "alive" or "destroyed"
   handle |-> 0,          \* handle_: 0 is the empty daliPipelineHandle
   stream |-> 0,          \* output_stream_: 0 is nullptr
   last |-> "none",       \* the last operation on the object
   prev |-> [handle |-> 0, stream |-> 0]]  \* handle_ and output_stream_ before it

Init ==
  /\ buf = NewBuffer("CPU")
  /\ io = IoInit
  /\ objects = [o \in 1..MaxObjects |-> NoObject]
  /\ pipelines = <<>>
  /\ cuda_streams = <<>>
  /\ ndebug \in BOOLEAN
  /\ device_id \in DeviceIds
  /\ current_device \in DeviceIds
  /\ frag = 0
  /\ descriptor = NoDescr
  /\ cpu_buffers = <<>>
  /\ gpu_buffers = <<>>
  /\ tasks = <<>>
  /\ flushing = FALSE
  /\ \E n \in 0..MaxOutputs : pipe = [PipeFresh EXCEPT !.num_outputs = n]
  /\ pc = "idle"
  /\ op = "none"
  /\ inputs = <<>>
  /\ outputs = <<>>
  /\ idx = 0
  /\ c_inputs = <<>>
  /\ result = "none"
  /\ calls = 0
  /\ obs = ObsInit
  /\ dest = [a \in DestAddrs |-> [j \in 1..MaxFragSize |-> Garbage]]
  /\ stream = <<>>

\* ------------------------------------------------------- DaliExecutor
IsNoCopyAnyCount(input) ==
  /\ Len(input.buffers) >= 1
  /\ \/ input.buffers[1].device = "CPU"
     \/ input.buffers[1].device_id = device_id

IsNoCopyDeviceOnly(input) ==
  /\ Len(input.buffers) = 1
  /\ input.buffers[1].device_id = device_id

IsNoCopy(input) ==
  /\ Len(input.buffers) = 1
  /\ \/ input.buffers[1].device = "CPU"
     \/ input.buffers[1].device_id = device_id

BatchSizesEqual(inps) ==
  \A s \in 1..Len(inps) : inps[s].meta.num_samples = inps[1].meta.num_samples

\* The start_immediately argument of AddWork on the input path and on the
\* output path ("deferred execution").
StartImmediately == TRUE

DeferredMutant == TRUE

Deferred == FALSE

\* The task of AddWork for fragment k of bufs: it keeps the pointer
\* data + off into the staging buffer (data is the descriptor's data,
\* <<"staging", dev, key, storage>>; off is the value dst/src has reached
\* after k - 1 increments) and the fragment's own descriptor (fragment k of
\* slot in this call).
CopyTask(kind, data, bufs, slot, k) ==
  [kind |-> kind, dev |-> data[2], key |-> data[3], data |-> data[4],
   off |-> OffsetOf(bufs, k), ext |-> <<calls, slot, k>>]

InputBufferDevice(input) == IF input.buffers[1].device = "CPU" THEN "CPU" ELSE "GPU"

Buffers(dev) == IF dev = "CPU" THEN cpu_buffers ELSE gpu_buffers

\* The exception leaves the entry point: nothing of it is caught on the way.
Throw ==
  /\ pc' = "returned"
  /\ result' = "error"

\* Run entry: SetupInputs' assertions on the list and on the batch sizes.
\* Without assertions inputs[0] is read even when the list is empty: the
\* read kills the process or yields a value nothing uses.
Run(inps) ==
  /\ pc = "idle"
  /\ calls < MaxCalls
  /\ calls' = calls + 1
  /\ op' = "Run"
  /\ inputs' = inps
  /\ c_inputs' = <<>>
  /\ idx' = 1
  /\ result' = "none"
  /\ obs' = [ObsInit EXCEPT !.after_failure = (op = "Run" /\ obs.exec \notin {"none", "ok"})]
  /\ \E ub \in (IF inps = <<>> /\ ndebug THEN {"crash", "unused"} ELSE {"none"}) :
       pc' = IF \/ ~ndebug /\ (inps = <<>> \/ ~BatchSizesEqual(inps))
                \/ ub = "crash"
               THEN "aborted" ELSE "setup_inputs"
  /\ UNCHANGED <<bufferVars, pipelineVars, ndebug, current_device, frag, descriptor, dest, stream, device_id, cpu_buffers, gpu_buffers, tasks, flushing, pipe, outputs>>

\* What input.buffers[0].device yields: with no fragment the assertion ends
\* the process, and without assertions the read is out of bounds.
FirstDevice(input) ==
  IF input.buffers # <<>> THEN {InputBufferDevice(input)}
  ELSE IF ~ndebug THEN {"assert"}
  ELSE DeviceTypes \cup {"crash"}

\* ScheduleInputCopy returns its descriptor to SetupInputs.
ScheduleInputCopyReturn(input, descr) ==
  /\ c_inputs' = Append(c_inputs, [meta |-> input.meta, buffers |-> <<descr>>])
  /\ idx' = idx + 1
  /\ frag' = 0
  /\ descriptor' = NoDescr
  /\ pc' = IF ~ndebug /\ input.meta.inp_size > descr.size THEN "aborted" ELSE pc
  /\ result' = result

\* ScheduleInputCopy for inputs[idx] up to the AddWork loop; alloc_ok =
\* FALSE: resize throws.  The map lookup inserts the buffer before resize
\* runs.
ScheduleInputCopy(input, alloc_ok, dev) ==
  LET key == input.meta.name \o "_inp"
      size == SumSizes(input.buffers)
      found == Lookup(Buffers(dev), key, dev)
      buffer == IF alloc_ok THEN resize(found, size) ELSE resizeThrows(found)
  IN IF dev \in {"assert", "crash"}
       THEN /\ pc' = "aborted"
            /\ UNCHANGED <<cpu_buffers, gpu_buffers, tasks, c_inputs, obs, idx, result,
                           frag, descriptor>>
       ELSE /\ cpu_buffers' = IF dev = "CPU" THEN Store(cpu_buffers, key, buffer) ELSE cpu_buffers
            /\ gpu_buffers' = IF dev = "GPU" THEN Store(gpu_buffers, key, buffer) ELSE gpu_buffers
            /\ UNCHANGED <<tasks, obs>>
            /\ IF ~alloc_ok
                 THEN /\ Throw
                      /\ UNCHANGED <<c_inputs, idx, frag, descriptor>>
                 ELSE IF input.buffers = <<>>
                   THEN ScheduleInputCopyReturn(input, get_descr(buffer, dev, key))
                   ELSE /\ descriptor' = get_descr(buffer, dev, key)
                        /\ frag' = 1
                        /\ UNCHANGED <<c_inputs, idx, pc, result>>

\* One iteration of the loop over inputs, for a staged input up to the
\* AddWork loop of ScheduleInputCopy.
SetupInputs ==
  /\ pc = "setup_inputs"
  /\ idx <= Len(inputs)
  /\ frag = 0
  /\ LET inp == inputs[idx] IN
       IF IsNoCopy(inp)
         THEN /\ c_inputs' = Append(c_inputs, inp)
              /\ idx' = idx + 1
              /\ pc' = IF ~ndebug /\ inp.meta.inp_size > inp.buffers[1].size
                         THEN "aborted" ELSE pc
              /\ UNCHANGED <<cpu_buffers, gpu_buffers, tasks, obs, result, frag, descriptor>>
         ELSE \E alloc_ok \in BOOLEAN : \E dev \in FirstDevice(inp) :
                ScheduleInputCopy(inp, alloc_ok, dev)
  /\ UNCHANGED <<bufferVars, pipelineVars, ndebug, current_device, dest, stream, device_id, flushing, pipe, op, inputs, outputs, calls>>

\* One iteration of the AddWork loop of ScheduleInputCopy: the task for
\* fragment frag; after the last one ScheduleInputCopy returns.
AddInputWork ==
  /\ pc = "setup_inputs"
  /\ frag >= 1
  /\ LET input == inputs[idx] IN
       /\ tasks' = AddWork(tasks, CopyTask("in", descriptor.data, input.buffers, idx, frag),
                           input.buffers[frag].size, StartImmediately)
       /\ obs' = [obs EXCEPT !.enq = Append(@, [slot |-> idx, size |-> input.buffers[frag].size])]
       /\ IF frag < Len(input.buffers)
            THEN /\ frag' = frag + 1
                 /\ UNCHANGED <<descriptor, c_inputs, idx, pc, result>>
            ELSE ScheduleInputCopyReturn(input, descriptor)
  /\ UNCHANGED <<bufferVars, pipelineVars, ndebug, current_device, dest, stream, device_id, cpu_buffers, gpu_buffers, flushing, pipe, op, inputs, outputs, calls>>

RunInputCopySkipped ==
  /\ pc = "setup_inputs"
  /\ idx > Len(inputs)
  /\ pc' = "set_input"
  /\ UNCHANGED <<bufferVars, pipelineVars, ndebug, current_device, frag, descriptor, dest, stream, device_id, cpu_buffers, gpu_buffers, tasks, flushing, pipe, op,
                 inputs, outputs, idx, c_inputs, result, calls, obs>>

\* RunInputCopy: thread_pool_.RunAll() starts the queue and then waits.
RunInputCopy ==
  /\ pc = "setup_inputs"
  /\ idx > Len(inputs)
  /\ flushing' = TRUE
  /\ pc' = "input_copy"
  /\ UNCHANGED <<bufferVars, pipelineVars, ndebug, current_device, frag, descriptor, dest, stream, device_id, cpu_buffers, gpu_buffers, tasks, pipe, op,
                 inputs, outputs, idx, c_inputs, result, calls, obs>>

RunInputCopyWait ==
  /\ pc = "input_copy"
  /\ Unfinished(tasks) = {}
  /\ tasks' = <<>>
  /\ flushing' = FALSE
  /\ pc' = "set_input"
  /\ UNCHANGED <<bufferVars, pipelineVars, ndebug, current_device, frag, descriptor, dest, stream, device_id, cpu_buffers, gpu_buffers, pipe, op, inputs,
                 outputs, idx, c_inputs, result, calls, obs>>

RECURSIVE Repeat(_, _)
Repeat(x, n) == IF n = 0 THEN <<>> ELSE <<x>> \o Repeat(x, n - 1)

\* The loop handing every element of c_inputs to pipeline_.SetInput.
SetInput ==
  /\ pc = "set_input"
  /\ pipe' = [pipe EXCEPT !.fed = @ + Len(c_inputs)]
  /\ obs' = [obs EXCEPT !.set_input = c_inputs,
                        !.pipe_calls = @ \o Repeat("SetInput", Len(c_inputs))]
  /\ pc' = "pipeline_run"
  /\ UNCHANGED <<bufferVars, pipelineVars, ndebug, current_device, frag, descriptor, dest, stream, device_id, cpu_buffers, gpu_buffers, tasks, flushing, op, inputs,
                 outputs, idx, c_inputs, result, calls>>

\* DaliPipeline::Reset: ReleasePipeline, CreatePipeline.  The output stream
\* and the copies pending on it are not touched.
Reset(p) == [PipeFresh EXCEPT !.pending = p.pending, !.num_outputs = p.num_outputs]

Faults == {"none", "runtime_error", "other"}

\* What a call that executes the pipeline does under fault f.
ExecOutcomes(p, f) ==
  IF p.state = "partial" /\ f = "none" THEN {"runtime_error", "other"} ELSE {f}

\* The catch clause of Run, entered by an exception of the call named last
\* in called: only std::runtime_error is caught.
Catch(outcome, f, called) ==
  /\ pipe' = IF outcome = "runtime_error" THEN Reset(pipe)
              ELSE [pipe EXCEPT !.state = "partial", !.has_output = FALSE]
  /\ obs' = [obs EXCEPT !.fault = f, !.exec = outcome,
                        !.pipe_calls = @ \o called \o
                           (IF outcome = "runtime_error" THEN <<"Reset">> ELSE <<>>)]
  /\ Throw

\* pipeline_.Run(): daliOutputRelease, daliRun
PipelineRun ==
  /\ pc = "pipeline_run"
  /\ \E f \in Faults : \E outcome \in ExecOutcomes(pipe, f) :
       IF outcome = "none"
         THEN /\ pipe' = [pipe EXCEPT !.fed = 0, !.has_output = FALSE]
              /\ obs' = [obs EXCEPT !.pipe_calls = Append(@, "Run")]
              /\ pc' = "pipeline_output"
              /\ result' = result
         ELSE Catch(outcome, f, <<"Run">>)
  /\ UNCHANGED <<bufferVars, pipelineVars, ndebug, current_device, frag, descriptor, dest, stream, device_id, cpu_buffers, gpu_buffers, tasks, flushing, op, inputs,
                 outputs, idx, c_inputs, calls>>

RECURSIVE OutputInfoLoop(_)
OutputInfoLoop(n) ==
  IF n = 0 THEN <<>> ELSE OutputInfoLoop(n - 1) \o <<"GetOutputType", "GetOutputDevice">>

\* pipeline_.Output(), which waits for the execution, and the OutputInfo loop.
PipelineOutput ==
  /\ pc = "pipeline_output"
  /\ \E f \in Faults : \E outcome \in ExecOutcomes(pipe, f) :
       IF outcome = "none"
         THEN /\ pipe' = [pipe EXCEPT !.has_output = TRUE]
              /\ obs' = [obs EXCEPT !.fault = f, !.exec = "ok", !.returned_info = TRUE,
                                    !.pipe_calls = @ \o <<"Output", "GetNumOutput", "GetOutputShapes">>
                                                     \o OutputInfoLoop(pipe.num_outputs)]
              /\ pc' = "returned"
              /\ result' = "ok"
         ELSE Catch(outcome, f, <<"Output">>)
  /\ UNCHANGED <<bufferVars, pipelineVars, ndebug, current_device, frag, descriptor, dest, stream, device_id, cpu_buffers, gpu_buffers, tasks, flushing, op, inputs,
                 outputs, idx, c_inputs, calls>>

\* ------------------------------------------------- the output stream
\* The copy pipeline_.PutOutput issues on output_stream_: the whole output
\* output_idx goes to dst.  The caller sized the destination of an output to
\* the output's length.
OutputCopy(dst, output_idx) ==
  [dst |-> dst, idx |-> output_idx, size |-> SumSizes(outputs[output_idx].buffers)]

\* Byte j of output i is <<"out", i, j>>.
PipelineWrite(mem, w) ==
  [j \in 1..Len(mem) |-> IF j <= w.size THEN <<"out", w.idx, j>> ELSE mem[j]]

\* dst points into storage that has been freed.
Freed(map, dst) == map[dst[3]].data # dst[4]

\* Memory of the caller outlives the copy.
RECURSIVE DestAfter(_, _)
DestAfter(d, q) ==
  IF q = <<>> THEN d
  ELSE DestAfter(IF Head(q).dst[1] = "caller"
                   THEN [d EXCEPT ![Head(q).dst] = PipelineWrite(@, Head(q))]
                   ELSE d,
                 Tail(q))

RECURSIVE BuffersAfter(_, _, _, _)
BuffersAfter(map, dev, q, ub) ==
  IF q = <<>> THEN map
  ELSE BuffersAfter(IF /\ Head(q).dst[1] = "staging"
                       /\ Head(q).dst[2] = dev
                       /\ (Freed(map, Head(q).dst) => ub = "stray")
                      THEN [map EXCEPT ![Head(q).dst[3]].mem = PipelineWrite(@, Head(q))]
                      ELSE map,
                    dev, Tail(q), ub)

\* The outcomes of performing the copies q.
CopyOutcomes(q) ==
  IF \E k \in 1..Len(q) : /\ q[k].dst[1] = "staging"
                           /\ Freed(Buffers(q[k].dst[2]), q[k].dst)
    THEN Dangling ELSE {"live"}

\* The stream performs its oldest copy.
StreamCopy ==
  /\ pc # "aborted"
  /\ stream # <<>>
  /\ \E ub \in CopyOutcomes(<<Head(stream)>>) :
       /\ dest' = DestAfter(dest, <<Head(stream)>>)
       /\ cpu_buffers' = BuffersAfter(cpu_buffers, "CPU", <<Head(stream)>>, ub)
       /\ gpu_buffers' = BuffersAfter(gpu_buffers, "GPU", <<Head(stream)>>, ub)
       /\ c_inputs' \in InputsAfter(c_inputs, ub)
       /\ pc' = IF ub = "crash" THEN "aborted" ELSE pc
  /\ stream' = Tail(stream)
  /\ UNCHANGED <<bufferVars, pipelineVars, ndebug, current_device, frag, descriptor, device_id, tasks, flushing, pipe, op, inputs, outputs, idx,
                 result, calls, obs>>

\* PutOutputs entry.
PutOutputs(outs) ==
  /\ pc = "idle"
  /\ calls < MaxCalls
  /\ calls' = calls + 1
  /\ op' = "PutOutputs"
  /\ outputs' = outs
  /\ idx' = 1
  /\ result' = "none"
  /\ obs' = ObsInit
  /\ pc' = "put_outputs"
  /\ UNCHANGED <<bufferVars, pipelineVars, ndebug, current_device, frag, descriptor, dest, stream, device_id, cpu_buffers, gpu_buffers, tasks, flushing, pipe, inputs,
                 c_inputs>>

IsDirectNever(out) == FALSE

\* outputs[output_idx].buffers.size() == 1
IsDirect(out) == Len(out.buffers) = 1

\* The call pipeline_.PutOutput(dst, output_idx, device), made whether or not
\* it throws.
LogPutOutput(o, called, dst, device) ==
  [o EXCEPT !.pipe_calls = @ \o called,
            !.put_output = Append(@, [dst |-> dst, idx |-> idx, device |-> device])]

\* One iteration of the loop over outputs, for a staged output up to the
\* AddWork loop.  fail names the call that throws: resize of the
\* intermediate buffer, pipeline_.PutOutput, or none.  The map lookup
\* inserts the intermediate buffer before resize runs.
PutOutput ==
  /\ pc = "put_outputs"
  /\ idx <= Len(outputs)
  /\ frag = 0
  /\ IF IsDirect(outputs[idx])
       THEN \E fail \in {"none", "PutOutput"} :
              /\ obs' = LogPutOutput(obs, <<"PutOutput">>, outputs[idx].buffers[1].data,
                                     outputs[idx].buffers[1].device)
              /\ IF fail = "PutOutput"
                   THEN /\ Throw
                        /\ UNCHANGED <<pipe, idx, stream>>
                   ELSE /\ pipe' = [pipe EXCEPT !.pending = @ + 1]
                        /\ stream' = Append(stream, OutputCopy(outputs[idx].buffers[1].data, idx))
                        /\ idx' = idx + 1
                        /\ UNCHANGED <<pc, result>>
              /\ UNCHANGED <<cpu_buffers, gpu_buffers, frag, descriptor>>
       ELSE \E fail \in {"none", "resize", "PutOutput"} :
            \E dev \in DeviceTypes :   \* pipeline_.GetOutputDevice(output_idx)
              LET key == outputs[idx].meta.name \o "_out"
                  out_buffers == outputs[idx].buffers
                  size == SumSizes(out_buffers)
                  found == Lookup(Buffers(dev), key, dev)
                  interm_buffer == IF fail = "resize" THEN resizeThrows(found)
                                   ELSE resize(found, size)
                  interm_descr == get_descr(interm_buffer, dev, key)
                  resized(map, d) == IF dev = d THEN Store(map, key, interm_buffer) ELSE map
              IN /\ cpu_buffers' = resized(cpu_buffers, "CPU")
                 /\ gpu_buffers' = resized(gpu_buffers, "GPU")
                 /\ IF fail = "resize"
                      THEN /\ Throw
                           /\ obs' = [obs EXCEPT !.pipe_calls = Append(@, "GetOutputDevice")]
                           /\ UNCHANGED <<pipe, idx, stream, frag, descriptor>>
                    ELSE IF fail = "PutOutput"
                      THEN /\ Throw
                           /\ obs' = LogPutOutput(obs, <<"GetOutputDevice", "PutOutput">>,
                                                  interm_descr.data, interm_descr.device)
                           /\ UNCHANGED <<pipe, idx, stream, frag, descriptor>>
                      ELSE /\ pipe' = [pipe EXCEPT !.pending = @ + 1]
                           /\ stream' = Append(stream, OutputCopy(interm_descr.data, idx))
                           /\ obs' = LogPutOutput(obs, <<"GetOutputDevice", "PutOutput">>,
                                                  interm_descr.data, interm_descr.device)
                           /\ IF out_buffers = <<>>
                                THEN /\ idx' = idx + 1
                                     /\ UNCHANGED <<frag, descriptor>>
                                ELSE /\ descriptor' = interm_descr
                                     /\ frag' = 1
                                     /\ idx' = idx
                           /\ UNCHANGED <<pc, result>>
  /\ UNCHANGED <<bufferVars, pipelineVars, ndebug, current_device, dest, device_id, tasks, flushing, op, inputs, outputs, c_inputs, calls>>

\* One iteration of the AddWork loop of the staged branch: the deferred task
\* for destination fragment frag; after the last one the loop over outputs
\* goes on.
AddOutputWork ==
  /\ pc = "put_outputs"
  /\ frag >= 1
  /\ LET out_buffers == outputs[idx].buffers IN
       /\ tasks' = AddWork(tasks, CopyTask("out", descriptor.data, out_buffers, idx, frag),
                           out_buffers[frag].size, Deferred)
       /\ obs' = [obs EXCEPT !.enq = Append(@, [slot |-> idx, size |-> out_buffers[frag].size])]
       /\ IF frag < Len(out_buffers)
            THEN UNCHANGED <<descriptor, idx>> /\ frag' = frag + 1
            ELSE idx' = idx + 1 /\ frag' = 0 /\ descriptor' = NoDescr
  /\ UNCHANGED <<bufferVars, pipelineVars, ndebug, current_device, dest, stream, device_id, cpu_buffers, gpu_buffers, flushing, pipe, pc, op, inputs, outputs, c_inputs, result, calls>>

\* pipeline_.SyncOutputStream(): returns once every PutOutput copy is done.
SyncOutputStream ==
  /\ pc = "put_outputs"
  /\ idx > Len(outputs)
  /\ pipe' = [pipe EXCEPT !.pending = 0]
  /\ \E ub \in CopyOutcomes(stream) :
       /\ dest' = DestAfter(dest, stream)
       /\ cpu_buffers' = BuffersAfter(cpu_buffers, "CPU", stream, ub)
       /\ gpu_buffers' = BuffersAfter(gpu_buffers, "GPU", stream, ub)
       /\ c_inputs' \in InputsAfter(c_inputs, ub)
       /\ pc' = IF ub = "crash" THEN "aborted" ELSE "synced"
  /\ stream' = <<>>
  /\ obs' = [obs EXCEPT !.pipe_calls = Append(@, "SyncOutputStream")]
  /\ UNCHANGED <<bufferVars, pipelineVars, ndebug, current_device, frag, descriptor, device_id, tasks, flushing, op, inputs,
                 outputs, idx, result, calls>>

RunOutputCopySkipped ==
  /\ pc = "synced"
  /\ pc' = "returned"
  /\ result' = "ok"
  /\ UNCHANGED <<bufferVars, pipelineVars, ndebug, current_device, frag, descriptor, dest, stream, device_id, cpu_buffers, gpu_buffers, tasks, flushing, pipe, op,
                 inputs, outputs, idx, c_inputs, calls, obs>>

\* thread_pool_.RunAll() at the end of PutOutputs: start, then wait.
RunOutputCopy ==
  /\ pc = "synced"
  /\ flushing' = TRUE
  /\ pc' = "output_copy"
  /\ result' = result
  /\ UNCHANGED <<bufferVars, pipelineVars, ndebug, current_device, frag, descriptor, dest, stream, device_id, cpu_buffers, gpu_buffers, tasks, pipe, op, inputs,
                 outputs, idx, c_inputs, calls, obs>>

RunOutputCopyWait ==
  /\ pc = "output_copy"
  /\ Unfinished(tasks) = {}
  /\ tasks' = <<>>
  /\ flushing' = FALSE
  /\ pc' = "returned"
  /\ result' = "ok"
  /\ UNCHANGED <<bufferVars, pipelineVars, ndebug, current_device, frag, descriptor, dest, stream, device_id, cpu_buffers, gpu_buffers, pipe, op, inputs,
                 outputs, idx, c_inputs, calls, obs>>

\* Control is back at the caller; the arguments and locals are gone.
Return ==
  /\ pc = "returned"
  /\ pc' = "idle"
  /\ inputs' = <<>>
  /\ outputs' = <<>>
  /\ c_inputs' = <<>>
  /\ idx' = 0
  /\ obs' = [ObsInit EXCEPT !.exec = obs.exec]
  /\ UNCHANGED <<bufferVars, pipelineVars, ndebug, current_device, frag, descriptor, dest, stream, device_id, cpu_buffers, gpu_buffers, tasks, flushing, pipe, op,
                 result, calls>>

\* ------------------------------------------------------ worker threads
\* MemCopy is declared in io_buffer.h and defined elsewhere.  Its bytes are
\* in place when the task that called it finishes; of a copy with an endpoint
\* in accelerator memory, which stream 0 may perform later, this is the
\* behaviour in which the stream has caught up by then.
\* MemCopy of an input fragment into the staging buffer at offset off.
MemCopy(b, off, src, size) ==
  [b EXCEPT !.mem = [j \in 1..Len(@) |->
                       IF off < j /\ j <= off + size THEN <<src, j - off>> ELSE @[j]]]

\* MemCopy of size bytes of the intermediate buffer, from offset off, into a
\* destination fragment.
MemCopyOut(d, src, off, size) ==
  [j \in 1..Len(d) |-> IF j <= size THEN src[off + j] ELSE d[j]]

StartWork(t) ==
  /\ pc # "aborted"
  /\ tasks[t].status = "queued"
  /\ tasks[t].immediate \/ flushing
  /\ Cardinality(Running(tasks)) < NumThreads
  /\ tasks' = [tasks EXCEPT ![t].status = "running"]
  /\ UNCHANGED <<bufferVars, pipelineVars, ndebug, current_device, frag, descriptor, dest, stream, device_id, cpu_buffers, gpu_buffers, flushing, pipe, pc, op, inputs,
                 outputs, idx, c_inputs, result, calls, obs>>

\* What a read of size bytes from offset off of freed storage yields.
FreedMem(off, size) == [j \in 1..off + size |-> Garbage]

\* The outcomes of the copy w: its pointer into the staging buffer is good
\* as long as the buffer has not grown since the task was made.
WorkOutcomes(w) ==
  IF Buffers(w.dev)[w.key].data = w.data THEN {"live"} ELSE Dangling

FinishWork(t) ==
  /\ pc # "aborted"
  /\ tasks[t].status = "running"
  /\ tasks' = [tasks EXCEPT ![t].status = "done"]
  /\ LET w == tasks[t].work IN \E ub \in WorkOutcomes(w) :
       /\ cpu_buffers' = IF w.kind = "in" /\ w.dev = "CPU" /\ ub \in {"live", "stray"}
                           THEN [cpu_buffers EXCEPT ![w.key] = MemCopy(@, w.off, w.ext, tasks[t].size)]
                           ELSE cpu_buffers
       /\ gpu_buffers' = IF w.kind = "in" /\ w.dev = "GPU" /\ ub \in {"live", "stray"}
                           THEN [gpu_buffers EXCEPT ![w.key] = MemCopy(@, w.off, w.ext, tasks[t].size)]
                           ELSE gpu_buffers
       /\ dest' = IF w.kind = "out" /\ ub # "crash"
                    THEN [dest EXCEPT ![<<"caller", w.ext[2], w.ext[3]>>] =
                            MemCopyOut(@, IF ub \in {"lost", "corrupt"} THEN FreedMem(w.off, tasks[t].size)
                                          ELSE Buffers(w.dev)[w.key].mem,
                                       w.off, tasks[t].size)]
                    ELSE dest
       /\ c_inputs' \in IF w.kind = "in" THEN InputsAfter(c_inputs, ub) ELSE {c_inputs}
       /\ pc' = IF ub = "crash" THEN "aborted" ELSE pc
  /\ obs' = IF tasks[t].call = calls /\ pc \notin {"idle", "returned"}
              THEN [obs EXCEPT !.completed = @ + 1] ELSE obs
  /\ UNCHANGED <<bufferVars, pipelineVars, ndebug, current_device, frag, descriptor, stream, device_id, flushing, pipe, op, inputs,
                 outputs, idx, result, calls>>

Next ==
  \/ pc = "idle" /\ \E inps \in ValidBatches : Run(inps)
  \/ SetupInputs
  \/ AddInputWork
  \/ RunInputCopy
  \/ RunInputCopyWait
  \/ SetInput
  \/ PipelineRun
  \/ PipelineOutput
  \/ pc = "idle" /\ \E outs \in OutputBatches : PutOutputs(outs)
  \/ PutOutput
  \/ AddOutputWork
  \/ SyncOutputStream
  \/ RunOutputCopy
  \/ RunOutputCopyWait
  \/ Return
  \/ \E t \in 1..Len(tasks) : StartWork(t)
  \/ \E t \in 1..Len(tasks) : FinishWork(t)
  \/ StreamCopy

\* An executor built without assertions for device 0, on a thread whose
\* current device is 0, around a pipeline with MaxOutputs outputs.
InitHost == Init /\ ndebug /\ device_id = 0 /\ current_device = 0 /\ pipe = PipeFresh

Spec == InitHost /\ [][Next]_vars

\* One Run on a fresh executor, with every shape of request.
NextRun ==
  \/ pc = "idle" /\ \E inps \in InputBatches : Run(inps)
  \/ SetupInputs
  \/ AddInputWork
  \/ RunInputCopy
  \/ RunInputCopyWait
  \/ SetInput
  \/ PipelineRun
  \/ PipelineOutput
  \/ \E t \in 1..Len(tasks) : StartWork(t)
  \/ \E t \in 1..Len(tasks) : FinishWork(t)

SpecRun == Init /\ [][NextRun]_vars

\* An executor whose pipeline holds the outputs of a completed Run; calls
\* counts the invocations made from here on.
InitOut ==
  /\ buf = NewBuffer("CPU")
  /\ io = IoInit
  /\ objects = [o \in 1..MaxObjects |-> NoObject]
  /\ pipelines = <<>>
  /\ cuda_streams = <<>>
  /\ ndebug = TRUE
  /\ device_id = 0
  /\ current_device = 0
  /\ frag = 0
  /\ descriptor = NoDescr
  /\ cpu_buffers = <<>>
  /\ gpu_buffers = <<>>
  /\ tasks = <<>>
  /\ flushing = FALSE
  /\ pipe = [PipeFresh EXCEPT !.has_output = TRUE]
  /\ pc = "idle"
  /\ op = "Run"
  /\ inputs = <<>>
  /\ outputs = <<>>
  /\ idx = 0
  /\ c_inputs = <<>>
  /\ result = "ok"
  /\ calls = 0
  /\ obs = [ObsInit EXCEPT !.exec = "ok"]
  /\ dest = [a \in DestAddrs |-> [j \in 1..MaxFragSize |-> Garbage]]
  /\ stream = <<>>

\* PutOutputs invocations on that executor.
NextOut ==
  \/ pc = "idle" /\ \E outs \in OutputBatches : PutOutputs(outs)
  \/ PutOutput
  \/ AddOutputWork
  \/ SyncOutputStream
  \/ RunOutputCopy
  \/ RunOutputCopyWait
  \/ Return
  \/ \E t \in 1..Len(tasks) : StartWork(t)
  \/ \E t \in 1..Len(tasks) : FinishWork(t)
  \/ StreamCopy

SpecOut == InitOut /\ [][NextOut]_vars

\* ------------------------------------------------ an IOBuffer by itself
\* A call whose ENFORCE fails throws and leaves the buffer as it was.
CallAllocate(size) ==
  /\ Len(io.chunks) < MaxAllocs
  /\ LET ok == AllocateOK(buf, size) IN
       /\ buf' = IF ok THEN Allocate(buf, size) ELSE buf
       /\ io' = [op |-> "Allocate", size |-> size, ok |-> ok,
                 error |-> IF ok THEN "none" ELSE "ENFORCE",
                 origin |-> IF ok THEN {buf.filled} ELSE {},   \* buffer_.data() + filled_
                 before |-> buf,
                 chunks |-> IF ok THEN Append(io.chunks, [origin |-> buf.filled, size |-> size])
                                 ELSE io.chunks]
  /\ UNCHANGED <<executorVars, pipelineVars>>

CallClear ==
  /\ buf' = Clear(buf)
  /\ io' = [op |-> "Clear", size |-> 0, ok |-> TRUE, error |-> "none", origin |-> {}, before |-> buf,
            chunks |-> <<>>]
  /\ UNCHANGED <<executorVars, pipelineVars>>

\* buffer_.resize(size) throws: std::length_error for a size no vector can
\* have, std::bad_alloc when it needs new storage and memory has run out
\* (alloc_ok = FALSE).
ResizeThrows(b, size, alloc_ok) ==
  ~SizeLe(size, b.cap) /\ (size < 0 \/ (Reallocates(b, size) /\ ~alloc_ok))

\* A Reserve whose ENFORCE fails or whose buffer_.resize throws leaves the
\* buffer as it was.
CallReserve(size, alloc_ok) ==
  /\ LET error == IF ~ReserveOK(buf, size) THEN "ENFORCE"
                  ELSE IF ResizeThrows(buf, size, alloc_ok) THEN "resize"
                  ELSE "none"
     IN /\ buf' = IF error = "none" THEN Reserve(buf, size) ELSE buf
        /\ io' = [op |-> "Reserve", size |-> size, ok |-> error = "none", error |-> error,
                  origin |-> {}, before |-> buf, chunks |-> io.chunks]
  /\ UNCHANGED <<executorVars, pipelineVars>>

NextBuffer ==
  \/ \E size \in (0..MaxBytes) \cup {SIZE_MAX} : CallAllocate(size)
  \/ CallClear
  \/ \E size \in (0..MaxBytes) \cup {SIZE_MAX} : \E alloc_ok \in BOOLEAN :
       CallReserve(size, alloc_ok)

SpecBuffer == InitHost /\ [][NextBuffer]_vars

\* ------------------------------------------------ DaliPipeline objects
\* ReleasePipeline: daliDeletePipeline when the handle is set.
ReleasePipeline(obj, ps) ==
  IF obj.handle # 0 THEN [ps EXCEPT ![obj.handle] = @ + 1] ELSE ps

\* ReleaseStream: cudaStreamDestroy when the stream is set.
ReleaseStream(obj, ss) ==
  IF obj.stream # 0 THEN [ss EXCEPT ![obj.stream] = @ + 1] ELSE ss

Members(obj) == [handle |-> obj.handle, stream |-> obj.stream]

MovedFromKept(obj) == obj

\* dp.handle_ = daliPipelineHandle{}; dp.output_stream_ = nullptr;
MovedFrom(obj) == [obj EXCEPT !.handle = 0, !.stream = 0]

\* DaliPipeline(serialized_pipeline, ...): InitStream, CreatePipeline.
Construct(o) ==
  /\ objects[o].state # "alive"
  /\ Len(pipelines) < MaxHandles
  /\ Len(cuda_streams) < MaxHandles
  /\ cuda_streams' = Append(cuda_streams, 0)
  /\ pipelines' = Append(pipelines, 0)
  /\ objects' = [objects EXCEPT ![o] =
                   [state |-> "alive", handle |-> Len(pipelines) + 1,
                    stream |-> Len(cuda_streams) + 1, last |-> "constructed",
                    prev |-> Members(NoObject)]]
  /\ UNCHANGED <<executorVars, bufferVars>>

\* The body of operator=(DaliPipeline&& dp) for this # &dp; this holds the
\* members of the target before the assignment.
Assign(o, dp, this) ==
  /\ pipelines' = ReleasePipeline(this, pipelines)
  /\ cuda_streams' = ReleaseStream(this, cuda_streams)
  /\ objects' = [objects EXCEPT
                   ![o] = [state |-> "alive", handle |-> objects[dp].handle,
                           stream |-> objects[dp].stream, last |-> "move_target",
                           prev |-> Members(this)],
                   ![dp] = [MovedFrom(objects[dp]) EXCEPT !.last = "moved_from",
                                                          !.prev = Members(objects[dp])]]

\* DaliPipeline(DaliPipeline&& dp): the members start empty, then *this = move(dp).
MoveConstruct(o, dp) ==
  /\ objects[o].state # "alive"
  /\ objects[dp].state = "alive"
  /\ Assign(o, dp, NoObject)
  /\ UNCHANGED <<executorVars, bufferVars>>

\* operator=(DaliPipeline&& dp), self-assignment included.
MoveAssign(o, dp) ==
  /\ objects[o].state = "alive"
  /\ objects[dp].state = "alive"
  /\ IF o = dp
       THEN /\ objects' = [objects EXCEPT ![o].last = "self_assigned",
                                          ![o].prev = Members(objects[o])]
            /\ UNCHANGED <<pipelines, cuda_streams>>
       ELSE Assign(o, dp, objects[o])
  /\ UNCHANGED <<executorVars, bufferVars>>

\* DaliPipeline::Reset: ReleasePipeline, CreatePipeline.
ResetObject(o) ==
  /\ objects[o].state = "alive"
  /\ Len(pipelines) < MaxHandles
  /\ pipelines' = Append(ReleasePipeline(objects[o], pipelines), 0)
  /\ objects' = [objects EXCEPT ![o].handle = Len(pipelines) + 1,
                                ![o].last = "reset",
                                ![o].prev = Members(objects[o])]
  /\ UNCHANGED <<executorVars, bufferVars, cuda_streams>>

\* ~DaliPipeline: ReleasePipeline, ReleaseStream.
Destroy(o) ==
  /\ objects[o].state = "alive"
  /\ pipelines' = ReleasePipeline(objects[o], pipelines)
  /\ cuda_streams' = ReleaseStream(objects[o], cuda_streams)
  /\ objects' = [objects EXCEPT ![o] = [state |-> "destroyed", handle |-> 0, stream |-> 0,
                                        last |-> "destroyed",
                                        prev |-> Members(objects[o])]]
  /\ UNCHANGED <<executorVars, bufferVars>>

NextPipeline ==
  \/ \E o \in 1..MaxObjects : Construct(o)
  \/ \E o, dp \in 1..MaxObjects : MoveConstruct(o, dp)
  \/ \E o, dp \in 1..MaxObjects : MoveAssign(o, dp)
  \/ \E o \in 1..MaxObjects : ResetObject(o)
  \/ \E o \in 1..MaxObjects : Destroy(o)

SpecPipeline == InitHost /\ [][NextPipeline]_vars

\* ==================================================================
\* Properties
\* ==================================================================
Range(q) == {q[x] : x \in DOMAIN q}

RECURSIVE TotalLength(_)
TotalLength(bufs) ==
  IF Len(bufs) = 0 THEN 0
  ELSE bufs[Len(bufs)].size + TotalLength(SubSeq(bufs, 1, Len(bufs) - 1))

RECURSIVE TotalEnqueued(_)
TotalEnqueued(log) ==
  IF Len(log) = 0 THEN 0
  ELSE log[Len(log)].size + TotalEnqueued(SubSeq(log, 1, Len(log) - 1))

EnqueuedFor(s) == SelectSeq(obs.enq, LAMBDA e : e.slot = s)

\* The input of slot s went through a staging buffer.
Staged(s) == c_inputs[s].buffers[1].data[1] = "staging"

\* One fragment, on the host or on the pipeline's device.
Eligible(input) ==
  /\ Len(input.buffers) = 1
  /\ input.buffers[1].device = "CPU" \/ input.buffers[1].device_id = device_id

BatchMismatch ==
  \E s \in 1..Len(inputs) : inputs[s].meta.num_samples # inputs[1].meta.num_samples

\* C1: a Run whose inputs differ in batch size is rejected before any copy
\* task is enqueued or run and before any call on the pipeline.
C1_MismatchRejected ==
  (op = "Run" /\ pc # "idle" /\ BatchMismatch) =>
     /\ pc = "aborted"
     /\ obs.enq = <<>>
     /\ obs.completed = 0
     /\ obs.pipe_calls = <<>>

\* C2: an input is handed over without staging exactly when it has one
\* fragment that is on the host or on the pipeline's device; every other
\* input is staged.
C2_ZeroCopyDecision ==
  op = "Run" =>
    \A s \in 1..Len(c_inputs) : (~Staged(s)) <=> Eligible(inputs[s])

C2_Witness ==
  /\ op = "Run"
  /\ pc = "pipeline_run"
  /\ Len(c_inputs) = 2
  /\ Len(inputs[1].buffers) = 2
  /\ inputs[1].buffers[1].device = "CPU"
  /\ Staged(1)
  /\ inputs[2].buffers[1].device = "GPU"
  /\ ~Staged(2)

\* C3: for a zero-copy-eligible input no copy task is enqueued, no staging
\* buffer is created or touched, and SetInput receives the caller's own
\* descriptor.
C3_ZeroCopyUntouched ==
  op = "Run" =>
    \A s \in 1..Len(c_inputs) :
      Eligible(inputs[s]) =>
        /\ EnqueuedFor(s) = <<>>
        /\ \A t \in 1..Len(tasks) : tasks[t].work.ext[2] # s
        /\ c_inputs[s] = inputs[s]
        /\ (inputs[s].meta.name \o "_inp") \notin (DOMAIN cpu_buffers \cup DOMAIN gpu_buffers)
        /\ Len(obs.set_input) >= s => obs.set_input[s] = inputs[s]

C3_Witness ==
  /\ op = "Run"
  /\ pc = "pipeline_run"
  /\ Len(inputs) = 2
  /\ Eligible(inputs[2])
  /\ ~Eligible(inputs[1])
  /\ obs.set_input[2] = inputs[2]
  /\ Len(obs.enq) = 2

\* C4: for a staged input one copy task is enqueued per fragment, the task
\* sizes add up to the fragment lengths, and the staging buffer's filled
\* length, which is the size of the descriptor given to the pipeline, is
\* that sum.
C4_StagedCopies ==
  op = "Run" =>
    \A s \in 1..Len(c_inputs) :
      ~Eligible(inputs[s]) =>
        LET frags == inputs[s].buffers
            e == EnqueuedFor(s)
            d == c_inputs[s].buffers[1]
            b == Buffers(d.device)[d.data[3]]
        IN /\ Len(e) = Len(frags)
           /\ \A k \in 1..Len(e) : e[k].size = frags[k].size
           /\ TotalEnqueued(e) = TotalLength(frags)
           /\ Len(c_inputs[s].buffers) = 1
           /\ d.size = TotalLength(frags)
           /\ b.filled = TotalLength(frags)

C4_Witness ==
  /\ op = "Run"
  /\ pc = "pipeline_run"
  /\ Len(inputs) = 1
  /\ Len(inputs[1].buffers) = 2
  /\ inputs[1].buffers[1].size # inputs[1].buffers[2].size
  /\ c_inputs[1].buffers[1].size = 3
  /\ Len(obs.enq) = 2

\* C5: every input copy task of a Run has completed before the first
\* SetInput and before the pipeline executes, under every interleaving of
\* the worker threads.
C5_CopiesBeforePipeline ==
  (op = "Run" /\ (pc \in {"set_input", "pipeline_run", "pipeline_output"} \/ obs.pipe_calls # <<>>)) =>
     /\ obs.completed = Len(obs.enq)
     /\ \A t \in 1..Len(tasks) : tasks[t].call = calls => tasks[t].status = "done"

C5_Witness ==
  /\ op = "Run"
  /\ pc = "pipeline_run"
  /\ "SetInput" \in Range(obs.pipe_calls)
  /\ Len(obs.enq) = 3
  /\ obs.completed = 3

\* C6: when the pipeline's execution fails in a Run, the pipeline is reset
\* before the error reaches the caller, the error is raised with no
\* OutputInfo returned, and the next Run with valid inputs succeeds.
C6_FailureRecovery ==
  (op = "Run" /\ pc = "returned" /\ obs.exec # "none") =>
     /\ obs.exec # "ok" =>
          /\ "Reset" \in Range(obs.pipe_calls)
          /\ pipe.state = "ready"
          /\ result = "error"
          /\ ~obs.returned_info
     /\ (obs.after_failure /\ obs.fault = "none") => result = "ok"

\* C7: in a PutOutputs no deferred copy-out task starts before every output
\* slot has been processed and SyncOutputStream has been called.
C7_SyncBeforeCopyOut ==
  (op = "PutOutputs" /\ pc # "idle") =>
     \A t \in 1..Len(tasks) :
       (tasks[t].work.kind = "out" /\ tasks[t].status # "queued") =>
          /\ idx > Len(outputs)
          /\ "SyncOutputStream" \in Range(obs.pipe_calls)

C7_Witness ==
  /\ op = "PutOutputs"
  /\ pc = "output_copy"
  /\ Len(outputs) = 2
  /\ \E t \in 1..Len(tasks) : tasks[t].work.kind = "out" /\ tasks[t].status = "running"
  /\ \E t \in 1..Len(tasks) : tasks[t].work.kind = "out" /\ tasks[t].status = "done"

\* C8: PutOutputs returns only after every copy of the invocation, the
\* pipeline's direct writes and the staged copy-out tasks, has completed.
C8_ReturnsAfterCopies ==
  (op = "PutOutputs" /\ pc = "returned" /\ result = "ok") =>
     /\ Unfinished(tasks) = {}
     /\ obs.completed = Len(obs.enq)
     /\ pipe.pending = 0

C8_Witness ==
  /\ op = "PutOutputs"
  /\ pc = "returned"
  /\ result = "ok"
  /\ Len(outputs) = 2
  /\ Len(obs.enq) = 2
  /\ obs.completed = 2
  /\ "PutOutput" \in Range(obs.pipe_calls)

\* C9: when Run or PutOutputs hands control back, with or without an error,
\* the copy scheduler holds no queued and no running task.
C9_DrainedOnReturn ==
  pc = "returned" => Unfinished(tasks) = {}

\* Two input copy tasks of the current invocation into one staging buffer
\* write ranges that do not overlap.
DisjointTaskRanges ==
  \A t, u \in 1..Len(tasks) :
    (/\ t < u
     /\ tasks[t].call = calls /\ tasks[u].call = calls
     /\ tasks[t].work.kind = "in" /\ tasks[u].work.kind = "in"
     /\ tasks[t].work.key = tasks[u].work.key
     /\ tasks[t].work.dev = tasks[u].work.dev) =>
       tasks[t].work.off + tasks[t].size <= tasks[u].work.off

\* C10: the copy tasks of a staged input write pairwise disjoint ranges,
\* fragment k at the offset of the fragments before it, and once the
\* scheduler has run the staging buffer holds the fragments in their order,
\* whatever the completion order of the workers.
C10_Concatenation ==
  op = "Run" =>
    /\ DisjointTaskRanges
    /\ pc \in {"set_input", "pipeline_run", "pipeline_output"} =>
         \A s \in 1..Len(c_inputs) :
           ~Eligible(inputs[s]) =>
             LET frags == inputs[s].buffers
                 d == c_inputs[s].buffers[1]
                 mem == Buffers(d.device)[d.data[3]].mem
                 before(k) == TotalLength(SubSeq(frags, 1, k - 1))
             IN \A k \in 1..Len(frags) : \A j \in 1..frags[k].size :
                  mem[before(k) + j] = <<<<calls, s, k>>, j>>

\* The intermediate buffer of output slot s: it is in the map of the output's
\* device, under name + "_out".
IntermBuffers(s) ==
  LET key == outputs[s].meta.name \o "_out"
  IN {b \in {Buffers(dev)[key] : dev \in {d \in DeviceTypes : key \in DOMAIN Buffers(d)}} :
        b.filled = TotalLength(outputs[s].buffers)}

\* C11: when PutOutputs has returned, for every output with a fragmented
\* destination the intermediate buffer name + "_out" is filled to the sum of
\* the fragment sizes and holds the pipeline's output, and destination
\* fragment k holds the bytes of the output at the offset of the fragments
\* before it.
C11_FragmentedOutput ==
  (op = "PutOutputs" /\ pc = "returned" /\ result = "ok") =>
    \A s \in 1..Len(outputs) :
      Len(outputs[s].buffers) > 1 =>
        LET frags == outputs[s].buffers
            before(k) == TotalLength(SubSeq(frags, 1, k - 1))
        IN /\ \E b \in IntermBuffers(s) :
                \A j \in 1..TotalLength(frags) : b.mem[j] = <<"out", s, j>>
           /\ \A k \in 1..Len(frags) : \A j \in 1..frags[k].size :
                dest[frags[k].data][j] = <<"out", s, before(k) + j>>

\* C12: the loop iteration of PutOutputs for an output with a single
\* destination fragment calls pipeline_.PutOutput with that fragment's own
\* pointer and device, adds no copy task and leaves every staging buffer as
\* it was.
C12_DirectOutput ==
  [][(/\ pc = "put_outputs"
      /\ idx <= Len(outputs)
      /\ Len(outputs[idx].buffers) = 1
      /\ idx' = idx + 1) =>
        /\ obs'.put_output = Append(obs.put_output,
                                    [dst |-> outputs[idx].buffers[1].data, idx |-> idx,
                                     device |-> outputs[idx].buffers[1].device])
        /\ tasks' = tasks
        /\ obs'.enq = obs.enq
        /\ cpu_buffers' = cpu_buffers
        /\ gpu_buffers' = gpu_buffers]_vars

C12_Witness ==
  /\ op = "PutOutputs"
  /\ pc = "put_outputs"
  /\ idx = 3
  /\ Len(outputs[1].buffers) = 2
  /\ Len(outputs[2].buffers) = 1
  /\ Len(obs.put_output) = 2
  /\ obs.put_output[2].dst = outputs[2].buffers[1].data
  /\ (outputs[2].meta.name \o "_out") \in DOMAIN cpu_buffers
  /\ Len(tasks) = 2

\* ------------------------------------------------------------ IOBuffer
\* C13: after every sequence of Allocate, Clear and Reserve calls, failed
\* calls included, the buffer's filled length is at most its capacity.
C13_FilledWithinCapacity ==
  /\ 0 <= buf.filled
  /\ buf.filled <= Capacity(buf)
  /\ Len(buf.mem) = Capacity(buf)

C13_Witness ==
  /\ io.op = "Allocate"
  /\ ~io.ok
  /\ buf.filled > 0
  /\ buf.filled < Capacity(buf)

\* filled + size <= capacity for the numbers the size_t values stand for:
\* a size of 2^64 - n never fits.
Fits(filled, size, cap) == size >= 0 /\ filled + size <= cap

\* C14: Allocate(size) succeeds exactly when filled + size <= capacity; then
\* it returns offset filled, adds size to filled and keeps the capacity, so
\* the chunks handed out since the last Clear lie one after the other
\* inside the capacity without overlapping; otherwise it fails and changes
\* nothing.
C14_AllocateContract ==
  /\ io.op = "Allocate" =>
       /\ io.ok <=> Fits(io.before.filled, io.size, io.before.cap)
       /\ io.ok => /\ io.origin = {io.before.filled}
                   /\ buf.filled = io.before.filled + io.size
                   /\ buf.cap = io.before.cap
                   /\ buf.mem = io.before.mem
       /\ ~io.ok => (buf = io.before /\ io.origin = {})
  /\ \A k \in 1..Len(io.chunks) :
       /\ Fits(io.chunks[k].origin, io.chunks[k].size, buf.cap)
       /\ \A m \in 1..Len(io.chunks) :
            k < m => io.chunks[k].origin + io.chunks[k].size <= io.chunks[m].origin

\* C15 as stated: Reserve(size) with size above the capacity is rejected
\* when filled > 0 and then changes nothing; when filled = 0 it succeeds and
\* the capacity becomes at least size.
C15_ReserveGrowth ==
  (io.op = "Reserve" /\ ~SizeLe(io.size, io.before.cap)) =>
     /\ io.before.filled > 0 => (~io.ok /\ buf = io.before)
     /\ io.before.filled = 0 =>
          (io.ok /\ SizeLe(io.size, Capacity(buf)) /\ buf.filled = 0)

\* C15 amended: Reserve(size) with size above the capacity is rejected when
\* filled > 0 and then changes nothing; when filled = 0 it either succeeds
\* and the capacity becomes at least size, or the allocation itself fails
\* and nothing changes.
C15_ReserveGrowthOrAllocationFailure ==
  (io.op = "Reserve" /\ ~SizeLe(io.size, io.before.cap)) =>
     /\ io.before.filled > 0 => (~io.ok /\ io.error = "ENFORCE" /\ buf = io.before)
     /\ io.before.filled = 0 =>
          \/ io.ok /\ SizeLe(io.size, Capacity(buf)) /\ buf.filled = 0
          \/ ~io.ok /\ io.error = "resize" /\ buf = io.before

C15_Witness ==
  /\ io.op = "Reserve"
  /\ io.size = SIZE_MAX
  /\ io.before.filled = 0
  /\ io.before.cap > 0
  /\ io.error = "resize"
  /\ buf = io.before

\* C16: Clear sets filled to 0 and keeps the capacity and the backing
\* memory; after it an Allocate of the whole capacity is accepted.
C16_ClearKeepsAllocation ==
  io.op = "Clear" =>
    /\ buf.filled = 0
    /\ Capacity(buf) = Capacity(io.before)
    /\ buf.mem = io.before.mem
    /\ AllocateOK(buf, Capacity(io.before))

C16_Witness ==
  /\ io.op = "Clear"
  /\ io.before.filled > 0
  /\ Capacity(buf) = MaxBytes

\* C18: Reserve(size) with size at most the capacity raises no error and
\* changes neither filled nor the capacity, also when filled > 0.
C18_ReserveNoOp ==
  (io.op = "Reserve" /\ SizeLe(io.size, io.before.cap)) => (io.ok /\ buf = io.before)

C18_Witness ==
  /\ io.op = "Reserve"
  /\ io.size <= io.before.cap
  /\ io.size > 0
  /\ io.before.filled > 0
  /\ io.ok

\* ------------------------------------------------------- buffer reuse
\* The step of SetupInputs that stages inputs[idx].
StagingStep ==
  /\ pc = "setup_inputs"
  /\ idx <= Len(inputs)
  /\ frag = 0
  /\ ~IsNoCopy(inputs[idx])
  /\ frag' = 1

\* The step allocates nothing: no pool entry is added, no capacity changes,
\* and the buffer under key in the map of device kind d is refilled to size.
NoNewAllocation(key, d, size) ==
  /\ DOMAIN cpu_buffers' = DOMAIN cpu_buffers
  /\ DOMAIN gpu_buffers' = DOMAIN gpu_buffers
  /\ \A k \in DOMAIN cpu_buffers : cpu_buffers'[k].cap = cpu_buffers[k].cap
  /\ \A k \in DOMAIN gpu_buffers : gpu_buffers'[k].cap = gpu_buffers[k].cap
  /\ key \in DOMAIN Buffers(d)
  /\ (IF d = "CPU" THEN cpu_buffers' ELSE gpu_buffers')[key].filled = size

\* C17 as stated: staging an input whose name was staged before, with a
\* total size within the capacity reached then, allocates nothing.
C17_ReuseByName ==
  [][StagingStep =>
       LET key == inputs[idx].meta.name \o "_inp"
           size == SumSizes(inputs[idx].buffers)
       IN (\E d \in DeviceTypes :
             key \in DOMAIN Buffers(d) /\ size <= Buffers(d)[key].cap) =>
          NoNewAllocation(key, InputBufferDevice(inputs[idx]), size)]_vars

\* Keys of the two directions.
InputKeys == {NameList[n] \o "_inp" : n \in 1..Len(NameList)}
OutputKeys == {NameList[n] \o "_out" : n \in 1..Len(NameList)}

\* The reservation of the buffer under key k of map changes in this step.
Resized(map, map2, k) ==
  \/ k \notin DOMAIN map
  \/ map2[k].cap # map[k].cap
  \/ map2[k].filled # map[k].filled

\* C19: in every step of every sequence of Run and PutOutputs invocations a
\* staging buffer that exists stays in its map under its key with a capacity
\* at least as large; buffers are created and resized under an input key
\* only by Run and under an output key only by PutOutputs, so an input key
\* and an output key never denote the same buffer.
C19_BuffersPersist ==
  [][/\ DOMAIN cpu_buffers \subseteq DOMAIN cpu_buffers'
     /\ DOMAIN gpu_buffers \subseteq DOMAIN gpu_buffers'
     /\ \A k \in DOMAIN cpu_buffers : cpu_buffers'[k].cap >= cpu_buffers[k].cap
     /\ \A k \in DOMAIN gpu_buffers : gpu_buffers'[k].cap >= gpu_buffers[k].cap
     /\ DOMAIN cpu_buffers' \cup DOMAIN gpu_buffers' \subseteq InputKeys \cup OutputKeys
     /\ InputKeys \cap OutputKeys = {}
     /\ \A k \in DOMAIN cpu_buffers' :
          Resized(cpu_buffers, cpu_buffers', k) =>
            (IF op = "Run" THEN k \in InputKeys ELSE k \in OutputKeys)
     /\ \A k \in DOMAIN gpu_buffers' :
          Resized(gpu_buffers, gpu_buffers', k) =>
            (IF op = "Run" THEN k \in InputKeys ELSE k \in OutputKeys)]_vars

C19_Witness ==
  /\ op = "PutOutputs"
  /\ pc = "returned"
  /\ result = "ok"
  /\ DOMAIN cpu_buffers = {"a_inp", "a_out"}
  /\ cpu_buffers["a_inp"].cap = 3
  /\ cpu_buffers["a_out"].cap = 2
  /\ cpu_buffers["a_inp"].mem # cpu_buffers["a_out"].mem

\* ------------------------------------------------------- DaliPipeline
HandleOwners(h) == {o \in 1..MaxObjects : objects[o].state = "alive" /\ objects[o].handle = h}
StreamOwners(s) == {o \in 1..MaxObjects : objects[o].state = "alive" /\ objects[o].stream = s}

====
